---- MODULE Spec2Model ----
(***************************************************************************)
(* A model of the regi crates: the range and permission resolution of      *)
(* regi-impl (impl/src/ast.rs) and the runtime access layer of regi        *)
(* (src/field.rs, src/perms.rs, src/mmio.rs, src/register.rs).             *)
(*                                                                         *)
(* The resolver and the field encoding are pure functions.  Spec draws a   *)
(* call (the function and its arguments) in the initial state and has one  *)
(* action per function, which applies it and stores what it returns.       *)
(* AccessSpec is the state machine of register windows: memory cells       *)
(* behind windows, and the operations the trait bounds make available.     *)
(***************************************************************************)
EXTENDS Integers, Sequences, FiniteSets, TLC

VARIABLES call, ret, mem, held, reads, writes, handles

vars == <<call, ret, mem, held, reads, writes, handles>>

(***************************************************************************)
(* Bounds.  usize and the storage integer (u8/u16/u32/u64, one macro       *)
(* instantiation each, all of the same code) are modelled with fewer bits. *)
(***************************************************************************)
UsizeBits == 5

IntBits == 4

RECURSIVE Pow2(_)
Pow2(n) == IF n = 0 THEN 1 ELSE 2 * Pow2(n - 1)

UsizeMax == Pow2(UsizeBits) - 1

IntMax == Pow2(IntBits) - 1

Usize == 0..UsizeMax

Int_ == 0..IntMax

(***************************************************************************)
(* Result, Option and the panic of an overflowing arithmetic operation     *)
(* (a build with overflow checks panics, one without wraps).               *)
(***************************************************************************)
Ok(v) == [tag |-> "Ok", val |-> v]

Err(m) == [tag |-> "Err", msg |-> m]

Panic(m) == [tag |-> "Panic", msg |-> m]

Some(v) == [tag |-> "Some", val |-> v]

None == [tag |-> "None"]

Pending == [tag |-> "Pending"]

(***************************************************************************)
(* syn::LitInt keeps the literal's decimal digits; base10_parse::<usize>   *)
(* reads them back and fails when the number does not fit.                 *)
(***************************************************************************)
RECURSIVE ToDigits(_)
ToDigits(n) == IF n < 10 THEN <<n>> ELSE Append(ToDigits(n \div 10), n % 10)

LitInt(n) == [digits |-> ToDigits(n)]

RECURSIVE DigitsValue(_)
DigitsValue(ds) ==
    IF ds = <<>> THEN 0
    ELSE 10 * DigitsValue(SubSeq(ds, 1, Len(ds) - 1)) + ds[Len(ds)]

base10_parse(lit) ==
    LET n == DigitsValue(lit.digits)
    IN  IF n <= UsizeMax THEN Ok(n)
        ELSE Err("number too large to fit in target type")

(***************************************************************************)
(* syn::Expr, as far as the resolver tells expressions apart: an integer   *)
(* literal, or anything else (here a string literal and a path).           *)
(***************************************************************************)
ExprLitInt(n) == [kind |-> "LitInt", lit |-> LitInt(n)]

ExprLitStr == [kind |-> "LitStr"]

ExprPath == [kind |-> "Path"]

IntExprs == {ExprLitInt(n) : n \in Usize}

OtherExprs == {ExprLitStr, ExprPath}

OptExprs == {None} \cup {Some(e) : e \in IntExprs} \cup {Some(e) : e \in OtherExprs}

RangeLimits == {"HalfOpen", "Closed"}

RangeLit(n) == [kind |-> "Lit", lit |-> LitInt(n)]

RangeExpr(f, t, l) == [kind |-> "Range", from |-> f, to |-> t, limits |-> l]

LitRanges == {RangeLit(n) : n \in Usize}

ExprRanges == {RangeExpr(f, t, l) : f \in OptExprs, t \in OptExprs, l \in RangeLimits}

extract_int_from_range(range) ==
    IF range.tag = "Some"
    THEN IF range.val.kind = "LitInt"
         THEN LET r == base10_parse(range.val.lit)
              IN  IF r.tag = "Ok" THEN Ok(Some(r.val)) ELSE r
         ELSE Err("expected an integer literal")
    ELSE Ok(None)

start_default1(self) ==
    IF self.kind = "Lit"
    THEN base10_parse(self.lit)
    ELSE LET r == extract_int_from_range(self.from)
         IN  IF r.tag = "Ok"
             THEN Ok(IF r.val.tag = "Some" THEN r.val.val ELSE 1)
             ELSE r

start(self) ==
    IF self.kind = "Lit"
    THEN base10_parse(self.lit)
    ELSE LET r == extract_int_from_range(self.from)
         IN  IF r.tag = "Ok"
             THEN Ok(IF r.val.tag = "Some" THEN r.val.val ELSE 0)
             ELSE r

(* usize addition and subtraction: a panic with overflow checks, wrapping  *)
(* without.                                                                *)
usize_add(a, b, overflow_checks) ==
    IF a + b <= UsizeMax THEN Ok(a + b)
    ELSE IF overflow_checks THEN Panic("attempt to add with overflow")
    ELSE Ok((a + b) % (UsizeMax + 1))

usize_sub(a, b, overflow_checks) ==
    IF a >= b THEN Ok(a - b)
    ELSE IF overflow_checks THEN Panic("attempt to subtract with overflow")
    ELSE Ok((a - b) % (UsizeMax + 1))

(* The Range arm of RegisterRange::end.                                    *)
end_of_range(self, overflow_checks) ==
    LET s == start(self)
        e == extract_int_from_range(self.to)
    IN  IF s.tag # "Ok" THEN s
        ELSE IF e.tag # "Ok" THEN e
        ELSE IF e.val.tag = "Some" /\ s.val < e.val.val
        THEN Err("end of range must not be smaller than start of range")
        ELSE IF e.val.tag = "None" THEN Ok(None)
        ELSE LET i == usize_add(e.val.val,
                                IF self.limits = "Closed" THEN 1 ELSE 0,
                                overflow_checks)
             IN  IF i.tag # "Ok" THEN i
                 ELSE LET w == usize_sub(i.val, s.val, overflow_checks)
                      IN  IF w.tag # "Ok" THEN w ELSE Ok(Some(w.val))

end_lit_as_end_bit(self, overflow_checks) ==
    IF self.kind = "Lit"
    THEN LET s == start(self)
         IN  IF s.tag = "Ok" THEN Ok(Some(s.val + 1)) ELSE s
    ELSE end_of_range(self, overflow_checks)

end(self, overflow_checks) ==
    IF self.kind = "Lit"
    THEN Ok(Some(1))
    ELSE end_of_range(self, overflow_checks)

(***************************************************************************)
(* Bit operations of the storage integer: &, |, !, << and >> on IntBits    *)
(* bits.  << drops the bits shifted out; shift amounts stay below IntBits  *)
(* (a larger amount overflows the shift).                                  *)
(***************************************************************************)
Bit(n, i) == (n \div Pow2(i)) % 2

RECURSIVE BitAnd(_, _)
BitAnd(a, b) ==
    IF a = 0 \/ b = 0 THEN 0
    ELSE (a % 2) * (b % 2) + 2 * BitAnd(a \div 2, b \div 2)

BitOr(a, b) == a + b - BitAnd(a, b)

BitNot(a) == IntMax - a

Shl(a, n) == (a * Pow2(n)) % (IntMax + 1)

Shr(a, n) == a \div Pow2(n)

Shifts == 0..(IntBits - 1)

(***************************************************************************)
(* perms.rs: the three permission markers and the traits they implement.   *)
(***************************************************************************)
Perms == {"ReadOnly", "WriteOnly", "ReadWrite"}

Readable_all(p) == p \in Perms

Readable(p) == p \in {"ReadOnly", "ReadWrite"}

Writable_all(p) == p \in Perms

Writable(p) == p \in {"WriteOnly", "ReadWrite"}

(* impl PermissionUnion<P1, P2> for P1: the associated type Union, or None *)
(* where no impl applies.                                                  *)
PermissionUnion_other_side(p1, p2) ==
    IF p1 = "ReadOnly" /\ Readable(p2) THEN Some(p2)
    ELSE IF p1 = "WriteOnly" /\ Writable(p2) THEN Some(p2)
    ELSE IF p1 = "ReadWrite" THEN Some(p2)
    ELSE None

PermissionUnion(p1, p2) ==
    IF p1 = "ReadOnly" /\ Readable(p2) THEN Some("ReadOnly")
    ELSE IF p1 = "WriteOnly" /\ Writable(p2) THEN Some("WriteOnly")
    ELSE IF p1 = "ReadWrite" THEN Some(p2)
    ELSE None

(***************************************************************************)
(* field.rs: Field<I, P, R> and FieldValue<I, R>.                          *)
(***************************************************************************)
Field_new(mask, shift, perm, reg) ==
    [mask |-> mask, shift |-> shift, perm |-> perm, reg |-> reg]

select_unshifted_mask(self, value) == BitAnd(value, self.mask)

select(self, value) == BitAnd(value, Shl(self.mask, self.shift))

read(self, value) == Shr(select(self, value), self.shift)

is_set(self, value) == BitAnd(value, Shl(self.mask, self.shift)) # 0

const_read(self, value) ==
    Shr(BitAnd(value, Shl(self.mask, self.shift)), self.shift)

const_is_set(self, value) == BitAnd(value, Shl(self.mask, self.shift)) # 0

FieldValue_new(mask, value, reg) ==
    [mask |-> mask, value |-> BitAnd(value, mask), reg |-> reg]

(* Available where P: perms::Writable.                                     *)
make_value(self, value) ==
    FieldValue_new(Shl(self.mask, self.shift), value, self.reg)

into_inner(self) == self.value

modify(self, new) == BitOr(BitAnd(new, BitNot(self.mask)), self.mask)

const_modify_as_modify(self, new) == modify(self, new)

const_modify(self, new) == BitOr(BitAnd(new, BitNot(self.mask)), self.value)

bitor_masks_intersected(self, rhs) ==
    [mask |-> BitAnd(self.mask, rhs.mask),
     value |-> BitOr(self.value, rhs.value),
     reg |-> self.reg]

(* impl BitOr and impl BitOrAssign for FieldValue<I, R>.                   *)
bitor(self, rhs) ==
    [mask |-> BitOr(self.mask, rhs.mask),
     value |-> BitOr(self.value, rhs.value),
     reg |-> self.reg]

bitor_assign(self, rhs) ==
    [self EXCEPT !.mask = BitOr(self.mask, rhs.mask),
                 !.value = BitOr(self.value, rhs.value)]

(***************************************************************************)
(* impl Parse for Permission.  A token is an identifier with its text, or  *)
(* something else, on which parsing syn::Ident fails.                      *)
(***************************************************************************)
TokIdent(s) == [kind |-> "Ident", text |-> s]

TokOther(s) == [kind |-> s, text |-> ""]

IdentTexts == {"r", "w", "rw", "x", "R", "W", "RW", "Rw", "wr", "rr", "ro", "wo", "rwx", "read", "write", "_"}

Tokens == {TokIdent(s) : s \in IdentTexts} \cup {TokOther(s) : s \in {"LitInt", "Punct", "Group"}}

Permission_parse_any_order(input) ==
    IF input.kind # "Ident" THEN Err("expected identifier")
    ELSE IF input.text = "r" THEN Ok("Read")
    ELSE IF input.text = "w" THEN Ok("Write")
    ELSE IF input.text \in {"rw", "wr"} THEN Ok("ReadWrite")
    ELSE Err("unrecognized permissions - r/w/rw are supported values")

Permission_parse(input) ==
    IF input.kind # "Ident" THEN Err("expected identifier")
    ELSE IF input.text = "r" THEN Ok("Read")
    ELSE IF input.text = "w" THEN Ok("Write")
    ELSE IF input.text = "rw" THEN Ok("ReadWrite")
    ELSE Err("unrecognized permissions - r/w/rw are supported values")

(***************************************************************************)
(* The token stream the Parse impls read: a sequence of identifiers        *)
(* (keywords among them), integer literals as written (radix and digits),  *)
(* punctuation and brace groups.  A parser returns the value parsed and    *)
(* the rest of the stream, or the error.                                   *)
(***************************************************************************)
TIdent(s) == [kind |-> "Ident", text |-> s]

TPunct(s) == [kind |-> "Punct", text |-> s]

TLitInt(radix, digits) == [kind |-> "LitInt", text |-> "", radix |-> radix, digits |-> digits]

TBrace(stream) == [kind |-> "Group", text |-> "{", stream |-> stream]

TEnd == [kind |-> "End", text |-> ""]

Keywords == {"as", "enum", "pub", "crate"}

Parsed(v, rest) == [tag |-> "Ok", val |-> v, rest |-> rest]

Peek(ts) == IF ts = <<>> THEN TEnd ELSE Head(ts)

parse_punct(ts, c, msg) ==
    IF Peek(ts).kind = "Punct" /\ Peek(ts).text = c THEN Parsed(c, Tail(ts))
    ELSE Err(msg)

parse_keyword(ts, kw, msg) ==
    IF Peek(ts).kind = "Ident" /\ Peek(ts).text = kw THEN Parsed(kw, Tail(ts))
    ELSE Err(msg)

parse_ident(ts) ==
    IF Peek(ts).kind = "Ident" /\ Peek(ts).text \notin Keywords
    THEN Parsed(Peek(ts).text, Tail(ts))
    ELSE Err("expected identifier")

(* The number a literal token denotes in its radix; syn::LitInt keeps it   *)
(* as decimal digits.                                                      *)
RECURSIVE RadixValue(_, _)
RadixValue(radix, ds) ==
    IF ds = <<>> THEN 0
    ELSE radix * RadixValue(radix, SubSeq(ds, 1, Len(ds) - 1)) + ds[Len(ds)]

LitInt_of_token(t) == LitInt(RadixValue(t.radix, t.digits))

parse_LitInt(ts) ==
    IF Peek(ts).kind = "LitInt" THEN Parsed(LitInt_of_token(Peek(ts)), Tail(ts))
    ELSE Err("expected integer literal")

(* syn::Visibility and syn::Type, as far as the layouts use them.          *)
parse_Visibility(ts) ==
    IF Peek(ts).kind = "Ident" /\ Peek(ts).text = "pub" THEN Parsed("pub", Tail(ts))
    ELSE Parsed("inherited", ts)

parse_Type(ts) ==
    IF Peek(ts).kind = "Ident" /\ Peek(ts).text \notin Keywords
    THEN Parsed(Peek(ts).text, Tail(ts))
    ELSE Err("expected type")

(* syn::Expr: an integer literal, a range with optional integer literal    *)
(* bounds, or a path.                                                      *)
IsRangePunct(t) == t.kind = "Punct" /\ t.text \in {"..", "..="}

LimitsOf(t) == IF t.text = "..=" THEN "Closed" ELSE "HalfOpen"

parse_range_rest(from, ts) ==
    LET rest == Tail(ts)
    IN  IF Peek(rest).kind = "LitInt"
        THEN Parsed([kind |-> "Range", from |-> from,
                     to |-> Some([kind |-> "LitInt", lit |-> LitInt_of_token(Peek(rest))]),
                     limits |-> LimitsOf(Head(ts))], Tail(rest))
        ELSE Parsed([kind |-> "Range", from |-> from, to |-> None,
                     limits |-> LimitsOf(Head(ts))], rest)

parse_Expr(ts) ==
    IF Peek(ts).kind = "LitInt"
    THEN LET e == [kind |-> "LitInt", lit |-> LitInt_of_token(Peek(ts))]
         IN  IF IsRangePunct(Peek(Tail(ts))) THEN parse_range_rest(Some(e), Tail(ts))
             ELSE Parsed(e, Tail(ts))
    ELSE IF IsRangePunct(Peek(ts)) THEN parse_range_rest(None, ts)
    ELSE IF Peek(ts).kind = "Ident" /\ Peek(ts).text \notin Keywords
    THEN Parsed(ExprPath, Tail(ts))
    ELSE Err("expected expression")

(* The ? operator: an Err is returned at once, an Ok value goes on.         *)
Try(r, K(_)) == IF r.tag # "Ok" THEN r ELSE K(r)

(* impl Parse for RegisterRange.                                           *)
RegisterRange_parse_lit_as_range(input) ==
    Try(parse_Expr(input), LAMBDA e :
        IF e.val.kind = "LitInt"
        THEN Parsed(RangeExpr(None, Some(e.val), "HalfOpen"), e.rest)
        ELSE IF e.val.kind = "Range" THEN Parsed(e.val, e.rest)
        ELSE Err("expected a numeric literal or a range expression denoting the field width"))

RegisterRange_parse(input) ==
    Try(parse_Expr(input), LAMBDA e :
        IF e.val.kind = "LitInt"
        THEN Parsed([kind |-> "Lit", lit |-> e.val.lit], e.rest)
        ELSE IF e.val.kind = "LitStr" THEN Err("expected an integer literal")
        ELSE IF e.val.kind = "Range" THEN Parsed(e.val, e.rest)
        ELSE Err("expected a numeric literal or a range expression denoting the field width"))

(* impl Parse for FieldOptions: the closure given to parse_terminated      *)
(* parses an identifier and then an expression.                            *)
parse_discriminant(buf) ==
    Try(parse_ident(buf), LAMBDA i :
    Try(parse_Expr(i.rest), LAMBDA e :
        Parsed(<<i.val, e.val>>, e.rest)))

RECURSIVE parse_terminated_discriminants(_)
parse_terminated_discriminants(content) ==
    IF content = <<>> THEN Parsed(<<>>, <<>>)
    ELSE Try(parse_discriminant(content), LAMBDA d :
             IF d.rest = <<>> THEN Parsed(<<d.val>>, <<>>)
             ELSE Try(parse_punct(d.rest, ",", "expected ,"), LAMBDA c :
                  Try(parse_terminated_discriminants(c.rest), LAMBDA more :
                      Parsed(<<d.val>> \o more.val, <<>>))))

parse_braced(ts) ==
    IF Peek(ts).kind = "Group" /\ Peek(ts).text = "{"
    THEN Parsed(Peek(ts).stream, Tail(ts))
    ELSE Err("expected curly braces")

FieldOptions_parse(input) ==
    Try(parse_keyword(input, "enum", "expected enum"), LAMBDA k :
    Try(parse_ident(k.rest), LAMBDA i :
    Try(parse_braced(i.rest), LAMBDA b :
    Try(parse_terminated_discriminants(b.val), LAMBDA ds :
        Parsed([ident |-> i.val, discriminants |-> ds.val], b.rest)))))

(* impl Parse for BitField (no attributes in the streams modelled).        *)
BitField_new(p, i, r, options) ==
    [attrs |-> <<>>, permission |-> p.val, ident |-> i.val, range |-> r.val,
     options |-> options]

BitField_parse(input) ==
    Try(Permission_parse(Peek(input)), LAMBDA p :
    Try(parse_ident(Tail(input)), LAMBDA i :
    Try(parse_punct(i.rest, ":", "expected :"), LAMBDA c :
    Try(RegisterRange_parse(c.rest), LAMBDA r :
        IF Peek(r.rest).kind = "Punct" /\ Peek(r.rest).text = "="
        THEN Try(FieldOptions_parse(Tail(r.rest)), LAMBDA o :
                 Parsed(BitField_new(p, i, r, Some(o.val)), o.rest))
        ELSE Parsed(BitField_new(p, i, r, None), r.rest)))))

RECURSIVE parse_terminated_fields(_)
parse_terminated_fields(content) ==
    IF content = <<>> THEN Parsed(<<>>, <<>>)
    ELSE Try(BitField_parse(content), LAMBDA f :
             IF f.rest = <<>> THEN Parsed(<<f.val>>, <<>>)
             ELSE Try(parse_punct(f.rest, ",", "expected ,"), LAMBDA c :
                  Try(parse_terminated_fields(c.rest), LAMBDA more :
                      Parsed(<<f.val>> \o more.val, <<>>))))

(* impl Parse for RegisterDef.                                             *)
RegisterDef_parse(input) ==
    Try(parse_Visibility(input), LAMBDA v :
    Try(parse_ident(v.rest), LAMBDA i :
    Try(parse_keyword(i.rest, "as", "expected as"), LAMBDA k :
    Try(parse_Type(k.rest), LAMBDA t :
    Try(parse_braced(t.rest), LAMBDA b :
    Try(parse_terminated_fields(b.val), LAMBDA fs :
        Parsed([attrs |-> <<>>, vis |-> v.val, ident |-> i.val, ty |-> t.val,
                fields |-> fs.val], b.rest)))))))

(* impl Parse for RegisterLayout: the literal, = and > as two tokens, the  *)
(* register definition.                                                    *)
RegisterLayout_parse(input) ==
    Try(parse_LitInt(input), LAMBDA a :
    Try(parse_punct(a.rest, "=", "expected ="), LAMBDA e :
    Try(parse_punct(e.rest, ">", "expected >"), LAMBDA g :
    Try(RegisterDef_parse(g.rest), LAMBDA r :
        Parsed([attrs |-> <<>>, addr |-> a.val, reg |-> r.val], r.rest)))))

(* RegisterLayout::address.                                                *)
address(self) == base10_parse(self.addr)

(***************************************************************************)
(* The streams given to the parsers.  A field is a permission, a name, :,  *)
(* a range and no options, options written `= enum N { A = e, ... }`, or   *)
(* options written without the = between name and expression.             *)
(***************************************************************************)
Dec(n) == TLitInt(10, ToDigits(n))

RangeTokenForms ==
    {<<Dec(0)>>, <<Dec(3), TPunct(".."), Dec(5)>>, <<Dec(3), TPunct("..="), Dec(5)>>,
     <<TPunct("..")>>, <<Dec(2), TPunct("..")>>}

DiscriminantLists == {<<>>, <<<<"A", 0>>>>, <<<<"A", 0>>, <<"B", 1>>>>}

OptionForms == {"none", "with_eq", "without_eq"}

RECURSIVE DiscriminantTokens(_, _, _)
DiscriminantTokens(discs, form, trailing) ==
    IF discs = <<>> THEN <<>>
    ELSE <<TIdent(Head(discs)[1])>>
         \o (IF form = "with_eq" THEN <<TPunct("=")>> ELSE <<>>)
         \o <<Dec(Head(discs)[2])>>
         \o (IF Len(discs) > 1 \/ trailing THEN <<TPunct(",")>> ELSE <<>>)
         \o DiscriminantTokens(Tail(discs), form, trailing)

OptionTokens(form, discs, trailing) ==
    IF form = "none" THEN <<>>
    ELSE <<TPunct("="), TIdent("enum"), TIdent("N"),
           TBrace(DiscriminantTokens(discs, form, trailing))>>

FieldTokens(perm, range, form, discs, trailing) ==
    <<TIdent(perm), TIdent("flag"), TPunct(":")>> \o range
        \o OptionTokens(form, discs, trailing)

BitFieldCalls ==
    {[fn |-> "BitField::parse",
      input |-> FieldTokens(p, r, f, d, t),
      perm |-> p, form |-> f, discs |-> d] :
        p \in {"r", "w", "rw", "x"}, r \in RangeTokenForms, f \in OptionForms,
        d \in DiscriminantLists, t \in BOOLEAN}

AddrTokens ==
    {<<TLitInt(16, <<1, 0>>)>>, <<TLitInt(10, <<1, 6>>)>>, <<TLitInt(2, <<1, 0, 0, 0, 0>>)>>,
     <<TLitInt(8, <<2, 0>>)>>, <<TLitInt(16, <<0>>)>>, <<TLitInt(16, <<1, 15>>)>>, <<>>}

ArrowTokens == {<<TPunct("="), TPunct(">")>>, <<TPunct("=")>>, <<TPunct(">")>>}

BodyTokens ==
    {<<TBrace(FieldTokens("rw", <<Dec(0)>>, "none", <<>>, FALSE))>>,
     <<TBrace(FieldTokens("rw", <<Dec(0)>>, "none", <<>>, FALSE) \o <<TPunct(",")>>)>>,
     <<TBrace(FieldTokens("r", <<Dec(0)>>, "none", <<>>, FALSE) \o <<TPunct(",")>>
              \o FieldTokens("w", <<Dec(1), TPunct("..")>>, "none", <<>>, FALSE))>>,
     <<TBrace(FieldTokens("rw", <<Dec(0)>>, "none", <<>>, FALSE)
              \o FieldTokens("rw", <<Dec(1)>>, "none", <<>>, FALSE))>>,
     <<TBrace(<<>>)>>,
     <<>>}

LayoutTokens(addr, arrow, vis, name, as, ty, body) ==
    addr \o arrow \o vis \o <<TIdent(name)>> \o as \o <<TIdent(ty)>> \o body

LayoutCalls ==
    {[fn |-> "RegisterLayout::parse",
      input |-> LayoutTokens(a, w, v, "status", k, t, b)] :
        a \in AddrTokens, w \in ArrowTokens, v \in {<<>>, <<TIdent("pub")>>},
        k \in {<<TIdent("as")>>, <<>>}, t \in {"u8", "u32"}, b \in BodyTokens}

(***************************************************************************)
(* lib.rs: the storage types, is_aligned and register_block_ptr::<T, I>.   *)
(* Both assertions are assert!, in every build; the pointer returned is    *)
(* the address itself.                                                     *)
(***************************************************************************)
IntTypes == {"u8", "u16", "u32", "u64"}

size_of(ty) ==
    IF ty = "u8" THEN 1 ELSE IF ty = "u16" THEN 2 ELSE IF ty = "u32" THEN 4 ELSE 8

is_aligned_mask_is_align(value, align) == BitAnd(value, align) = 0

is_aligned(value, align) == BitAnd(value, align - 1) = 0

register_block_ptr(addr, ty) ==
    IF addr = 0 THEN Panic("Address to register region must be non-zero!")
    ELSE IF ~is_aligned(addr, size_of(ty))
    THEN Panic("Address must be aligned to the size of the first register!")
    ELSE Ok(addr)

(***************************************************************************)
(* The calls of the pure functions.                                        *)
(***************************************************************************)
NoCall == [fn |-> "none"]

StartCalls == {[fn |-> "start", range |-> r] : r \in LitRanges \cup ExprRanges}

EndCalls ==
    {[fn |-> "end", range |-> r, overflow_checks |-> oc] :
        r \in LitRanges \cup ExprRanges, oc \in BOOLEAN}

FieldFns == {"read", "select", "is_set", "const_read", "const_is_set"}

FieldCalls ==
    {[fn |-> f, mask |-> m, shift |-> s, value |-> x] :
        f \in FieldFns, m \in Int_, s \in Shifts, x \in Int_}

ValueFns == {"const_modify", "modify"}

ValueCalls ==
    {[fn |-> f, mask |-> m, value |-> v, new |-> x] :
        f \in ValueFns, m \in Int_, v \in Int_, x \in Int_}

ParseCalls == {[fn |-> "Permission::parse", input |-> t] : t \in Tokens}

UnionCalls == {[fn |-> "PermissionUnion", p1 |-> a, p2 |-> b] : a \in Perms, b \in Perms}

MakeValueCalls ==
    {[fn |-> "make_value", mask |-> m, shift |-> s, value |-> v, new |-> x] :
        m \in Int_, s \in Shifts, v \in Int_, x \in Int_}

PtrCalls ==
    {[fn |-> "register_block_ptr", addr |-> a, ty |-> t] : a \in Usize, t \in IntTypes}

(***************************************************************************)
(* The register windows: one register per permission, each with a field of *)
(* every permission.                                                       *)
(***************************************************************************)
Windows == Perms

WindowPerm(w) == w

(***************************************************************************)
(* Who holds what.  The types of the crate a program holds values of, the  *)
(* members of each struct, and the traits each implements: Send and Sync   *)
(* are auto traits (implemented when every member implements them; a raw   *)
(* pointer implements neither), Clone and Copy need an impl or a derive.   *)
(* An execution context is a thread or an interrupt handler; every value   *)
(* is created in main.                                                     *)
(***************************************************************************)
MaxHandles == 2

Contexts == {"main", "interrupt"}

Traits == {"Clone", "Copy", "Send", "Sync"}

WindowTypes == {[name |-> "RegisterWindow", int |-> i] : i \in IntTypes}

HandleTypes ==
    WindowTypes \cup {[name |-> "Field", int |-> "u32"], [name |-> "FieldValue", int |-> "u32"]}

Members_shared_reference(ty) ==
    IF ty.name = "RegisterWindow" THEN {"&Register", "PhantomData"}
    ELSE IF ty.name = "Field" THEN {ty.int, "usize", "PhantomData"}
    ELSE {ty.int, "PhantomData"}

Members(ty) ==
    IF ty.name = "RegisterWindow" THEN {"*mut Register", "PhantomData"}
    ELSE IF ty.name = "Field" THEN {ty.int, "usize", "PhantomData"}
    ELSE {ty.int, "PhantomData"}

AutoTraits(member) == IF member = "*mut Register" THEN {} ELSE {"Send", "Sync"}

Impls(ty) == IF ty.name \in {"Field", "FieldValue"} THEN {"Clone", "Copy"} ELSE {}

Implements(ty, trait) ==
    IF trait \in {"Send", "Sync"} THEN \A m \in Members(ty) : trait \in AutoTraits(m)
    ELSE trait \in Impls(ty)

Created ==
    [o \in HandleTypes |->
        [c \in Contexts |-> [owned |-> IF c = "main" THEN 1 ELSE 0, borrowed |-> FALSE]]]

AccessIdle ==
    /\ handles = Created
    /\ mem = [w \in Windows |-> 0]
    /\ held = None
    /\ reads = [w \in Windows |-> FALSE]
    /\ writes = [w \in Windows |-> FALSE]

Init ==
    /\ \/ call \in StartCalls
       \/ call \in EndCalls
       \/ call \in FieldCalls
       \/ call \in ValueCalls
       \/ call \in ParseCalls
       \/ call \in UnionCalls
       \/ call \in PtrCalls
       \/ call \in MakeValueCalls
       \/ call \in BitFieldCalls
       \/ call \in LayoutCalls
    /\ ret = Pending
    /\ AccessIdle

Returns(fn, v) ==
    /\ call.fn = fn
    /\ ret = Pending
    /\ ret' = v
    /\ UNCHANGED <<handles, call, mem, held, reads, writes>>

Start == call.fn = "start" /\ Returns("start", start(call.range))

End == call.fn = "end" /\ Returns("end", end(call.range, call.overflow_checks))

CallField == Field_new(call.mask, call.shift, "ReadWrite", "ReadWrite")

Read == call.fn = "read" /\ Returns("read", Ok(read(CallField, call.value)))

Select == call.fn = "select" /\ Returns("select", Ok(select(CallField, call.value)))

IsSet == call.fn = "is_set" /\ Returns("is_set", Ok(is_set(CallField, call.value)))

ConstRead ==
    call.fn = "const_read" /\ Returns("const_read", Ok(const_read(CallField, call.value)))

ConstIsSet ==
    call.fn = "const_is_set"
    /\ Returns("const_is_set", Ok(const_is_set(CallField, call.value)))

CallValue == FieldValue_new(call.mask, call.value, "ReadWrite")

ConstModify ==
    call.fn = "const_modify"
    /\ Returns("const_modify", Ok(const_modify(CallValue, call.new)))

Modify == call.fn = "modify" /\ Returns("modify", Ok(modify(CallValue, call.new)))

ParsePermission ==
    call.fn = "Permission::parse"
    /\ Returns("Permission::parse", Permission_parse(call.input))

Union ==
    call.fn = "PermissionUnion"
    /\ Returns("PermissionUnion", PermissionUnion(call.p1, call.p2))

RegisterBlockPtr ==
    call.fn = "register_block_ptr"
    /\ Returns("register_block_ptr", register_block_ptr(call.addr, call.ty))

MakeValueCall ==
    call.fn = "make_value"
    /\ Returns("make_value", Ok(make_value(CallField, call.value)))

ParseBitField ==
    call.fn = "BitField::parse"
    /\ Returns("BitField::parse", BitField_parse(call.input))

ParseRegisterLayout ==
    call.fn = "RegisterLayout::parse"
    /\ Returns("RegisterLayout::parse", RegisterLayout_parse(call.input))

Next ==
    \/ Start
    \/ End
    \/ Read
    \/ Select
    \/ IsSet
    \/ ConstRead
    \/ ConstIsSet
    \/ ConstModify
    \/ Modify
    \/ ParsePermission
    \/ Union
    \/ RegisterBlockPtr
    \/ MakeValueCall
    \/ ParseBitField
    \/ ParseRegisterLayout

Spec == Init /\ [][Next]_vars

(***************************************************************************)
(* What the properties below read off a call.                              *)
(***************************************************************************)
Returned(fn) == call.fn = fn /\ ret.tag # "Pending"

IsIntBound(o) == o.tag = "Some" /\ o.val.kind = "LitInt"

IsOtherBound(o) == o.tag = "Some" /\ o.val.kind # "LitInt"

(* The number an integer literal bound was written as.                     *)
BoundValue(o) == CHOOSE n \in Usize : o.val = ExprLitInt(n)

(* The upper bound as an exclusive end: b, or b + 1 for a..=b.             *)
ExclusiveEnd(r) == BoundValue(r.to) + (IF r.limits = "Closed" THEN 1 ELSE 0)

BothBounds(r) == r.kind = "Range" /\ IsIntBound(r.from) /\ IsIntBound(r.to)

(* C1: a range a..b or a..=b whose exclusive end e is not smaller than a   *)
(* resolves to start a and width e - a.                                    *)
C1_RangeResolvesToWidth ==
    /\ (Returned("start") /\ BothBounds(call.range)
            /\ ExclusiveEnd(call.range) >= BoundValue(call.range.from))
        => ret = Ok(BoundValue(call.range.from))
    /\ (Returned("end") /\ BothBounds(call.range)
            /\ ExclusiveEnd(call.range) >= BoundValue(call.range.from))
        => ret = Ok(Some(ExclusiveEnd(call.range) - BoundValue(call.range.from)))

(* C2: a range whose exclusive end is smaller than its lower bound makes   *)
(* end() return an error, never a width.                                   *)
C2_ReversedRangeRejected ==
    (Returned("end") /\ BothBounds(call.range)
        /\ ExclusiveEnd(call.range) < BoundValue(call.range.from))
    => ret.tag = "Err"

(* C3: a single literal n resolves to start n and width 1, whatever n is.  *)
C3_LiteralIsOneBit ==
    \A n \in Usize :
        /\ (Returned("start") /\ call.range = RangeLit(n)) => ret = Ok(n)
        /\ (Returned("end") /\ call.range = RangeLit(n)) => ret = Ok(Some(1))

C3_Witness ==
    Returned("end") /\ call.range = RangeLit(UsizeMax) /\ ret = Ok(Some(1))

(* C4: an omitted lower bound is start 0; an omitted upper bound makes     *)
(* end() return None without error for every integer or omitted lower      *)
(* bound; a present bound that is no integer literal is the error          *)
(* "expected an integer literal".                                         *)
C4_OmittedBounds ==
    /\ (Returned("start") /\ call.range.kind = "Range" /\ call.range.from = None)
        => ret = Ok(0)
    /\ (Returned("end") /\ call.range.kind = "Range" /\ call.range.to = None
            /\ ~IsOtherBound(call.range.from))
        => ret = Ok(None)
    /\ (Returned("start") /\ call.range.kind = "Range"
            /\ IsOtherBound(call.range.from))
        => ret = Err("expected an integer literal")
    /\ (Returned("end") /\ call.range.kind = "Range"
            /\ (IsOtherBound(call.range.from) \/ IsOtherBound(call.range.to)))
        => ret = Err("expected an integer literal")

C4_Witness ==
    /\ Returned("end")
    /\ call.range.kind = "Range"
    /\ call.range.from = Some(ExprLitInt(5))
    /\ call.range.to = None
    /\ ret = Ok(None)

BitIndexes == 0..(IntBits - 1)

(* C5: const_modify of a field value (mask m, value v) on content x is     *)
(* (x & !m) | (v & m): inside m the bits of v, outside m the bits of x;    *)
(* writing again into the result changes nothing.                          *)
C5_ConstModifyEncodes ==
    Returned("const_modify") =>
        /\ \A i \in BitIndexes :
            Bit(ret.val, i) = IF Bit(call.mask, i) = 1 THEN Bit(call.value, i)
                              ELSE Bit(call.new, i)
        /\ ret.val = BitOr(BitAnd(call.new, BitNot(call.mask)),
                           BitAnd(call.value, call.mask))
        /\ const_modify(CallValue, ret.val) = ret.val
        /\ BitAnd(ret.val, BitNot(call.mask)) = BitAnd(call.new, BitNot(call.mask))

C5_Witness ==
    /\ Returned("const_modify")
    /\ call.mask = 6
    /\ call.value = 11
    /\ call.new = 5
    /\ ret = Ok(3)

(* C6: modify(new) returns (new & !m) | v, the result of const_modify on   *)
(* the same inputs, and sets no field bit that is zero in the value.       *)
C6_ModifyEncodesValue ==
    Returned("modify") =>
        /\ ret.val = const_modify(CallValue, call.new)
        /\ \A i \in BitIndexes :
            (Bit(call.mask, i) = 1 /\ Bit(call.value, i) = 0) => Bit(ret.val, i) = 0

(* The mask the synthesizer is specified to hand to Field::new:            *)
(* (1 << width) - 1 shifted left by start.                                 *)
SynthesizedMask(start_bit, width) == Shl(Pow2(width) - 1, start_bit)

(* Bits [start, start + width) of x moved down to bit 0, and kept in place. *)
FieldBitsRead(r, x, start_bit, width) ==
    \A i \in BitIndexes :
        Bit(r, i) = IF i < width THEN Bit(x, i + start_bit) ELSE 0

FieldBitsSelected(r, x, start_bit, width) ==
    \A i \in BitIndexes :
        Bit(r, i) = IF start_bit <= i /\ i < start_bit + width THEN Bit(x, i) ELSE 0

Widths == 0..IntBits

(* C7 as stated: with Field::new(mask, shift) given the positioned mask    *)
(* ((1 << width) - 1) << start and shift = start, read(x) is bits          *)
(* [start, start + width) of x moved down and select(x) those bits in      *)
(* place.                                                                  *)
C7_PositionedMaskReads ==
    (Returned("read") \/ Returned("select")) =>
        \A s \in Shifts, w \in Widths :
            (s + w <= IntBits /\ call.mask = SynthesizedMask(s, w) /\ call.shift = s) =>
                /\ Returned("read") => FieldBitsRead(ret.val, call.value, s, w)
                /\ Returned("select") => FieldBitsSelected(ret.val, call.value, s, w)

(* C7 amended: with Field::new(mask, shift) given the unshifted mask       *)
(* (1 << width) - 1 and shift = start, start + width within the storage    *)
(* width, read(x) is (x >> start) & ((1 << width) - 1) and select(x) keeps *)
(* exactly bits [start, start + width) of x.                               *)
C7_UnshiftedMaskReads ==
    (Returned("read") \/ Returned("select")) =>
        \A s \in Shifts, w \in Widths :
            (s + w <= IntBits /\ call.mask = Pow2(w) - 1 /\ call.shift = s) =>
                /\ Returned("read") =>
                    /\ FieldBitsRead(ret.val, call.value, s, w)
                    /\ ret.val = BitAnd(Shr(call.value, s), Pow2(w) - 1)
                /\ Returned("select") => FieldBitsSelected(ret.val, call.value, s, w)

C7_Witness ==
    /\ Returned("read")
    /\ call.mask = 3
    /\ call.shift = 2
    /\ call.value = 13
    /\ ret = Ok(3)

(* C8: exactly the identifiers r, w and rw parse, to Read, Write and       *)
(* ReadWrite; every other identifier is the error that names r/w/rw.       *)
C8_PermissionTokens ==
    (Returned("Permission::parse") /\ call.input.kind = "Ident") =>
        /\ call.input.text = "r" => ret = Ok("Read")
        /\ call.input.text = "w" => ret = Ok("Write")
        /\ call.input.text = "rw" => ret = Ok("ReadWrite")
        /\ call.input.text \notin {"r", "w", "rw"} =>
            ret = Err("unrecognized permissions - r/w/rw are supported values")

C8_Witness ==
    /\ Returned("Permission::parse")
    /\ call.input = TokIdent("wr")
    /\ ret.tag = "Err"

(* The combination the data model states, and what a permission grants.    *)
StatedUnion(a, b) ==
    IF a = "ReadWrite" THEN Some(b)
    ELSE IF b = "ReadWrite" THEN Some(a)
    ELSE IF a = b THEN Some(a)
    ELSE None

Grants(p) ==
    (IF p \in {"ReadOnly", "ReadWrite"} THEN {"read"} ELSE {})
        \cup (IF p \in {"WriteOnly", "ReadWrite"} THEN {"write"} ELSE {})

(* C9: ReadWrite with P is P, Read with Read is Read, Write with Write is  *)
(* Write, Read with Write has no result; both orders agree where defined,  *)
(* and the result grants nothing an operand lacks.                         *)
C9_PermissionUnion ==
    Returned("PermissionUnion") =>
        /\ ret = StatedUnion(call.p1, call.p2)
        /\ LET other == PermissionUnion(call.p2, call.p1)
           IN  (ret.tag = "Some" /\ other.tag = "Some") => ret = other
        /\ ret.tag = "Some" =>
            Grants(ret.val) \subseteq (Grants(call.p1) \cap Grants(call.p2))

C9_Witness ==
    /\ Returned("PermissionUnion")
    /\ call.p1 = "ReadOnly"
    /\ call.p2 = "ReadWrite"
    /\ ret = Some("ReadOnly")

(***************************************************************************)
(* The access machine.  Each window's register has a read-only field at    *)
(* bit 0, a write-only field at bit 1 and a read-write field at bits 2..3. *)
(* An operation is an action only where its trait bound holds: get where   *)
(* P: Readable, set where P: Writable, make_value where the field's        *)
(* P: Writable.  reads and writes record which windows were accessed.      *)
(***************************************************************************)
AccessFields ==
    UNION {{Field_new(1, 0, "ReadOnly", w),
            Field_new(1, 1, "WriteOnly", w),
            Field_new(3, 2, "ReadWrite", w)} : w \in Windows}

AccessValues == {0, 1, IntMax}

AccessInit ==
    /\ call = NoCall
    /\ ret = Pending
    /\ AccessIdle

(* RegisterRead::get of RegisterWindow<I, P, R>, P: perms::Readable.       *)
Get(w) ==
    /\ Readable(WindowPerm(w))
    /\ ret' = Ok(mem[w])
    /\ reads' = [reads EXCEPT ![w] = TRUE]
    /\ UNCHANGED <<handles, call, mem, held, writes>>

(* RegisterWrite::set of RegisterWindow<I, P, R>, P: perms::Writable.      *)
Set(w, value) ==
    /\ Writable(WindowPerm(w))
    /\ mem' = [mem EXCEPT ![w] = value]
    /\ writes' = [writes EXCEPT ![w] = TRUE]
    /\ UNCHANGED <<handles, call, ret, held, reads>>

(* Field::make_value, P: perms::Writable.                                  *)
MakeValue(f, value) ==
    /\ Writable(f.perm)
    /\ held' = [tag |-> "Some", val |-> make_value(f, value), field |-> f]
    /\ UNCHANGED <<handles, call, ret, mem, reads, writes>>

(* RegisterWrite::write: the field value alone, every other bit zero.      *)
WriteValue(w) ==
    /\ Writable(WindowPerm(w))
    /\ held.tag = "Some"
    /\ held.val.reg = w
    /\ mem' = [mem EXCEPT ![w] = into_inner(held.val)]
    /\ writes' = [writes EXCEPT ![w] = TRUE]
    /\ UNCHANGED <<handles, call, ret, held, reads>>

(* RegisterRead::read of a field with P: perms::Readable.                  *)
ReadField(w, f) ==
    /\ Readable(WindowPerm(w))
    /\ Readable(f.perm)
    /\ f.reg = w
    /\ ret' = Ok(read(f, mem[w]))
    /\ reads' = [reads EXCEPT ![w] = TRUE]
    /\ UNCHANGED <<handles, call, mem, held, writes>>

AccessNext ==
    \/ \E w \in Windows : Get(w)
    \/ \E w \in Windows, v \in AccessValues : Set(w, v)
    \/ \E f \in AccessFields, v \in AccessValues : MakeValue(f, v)
    \/ \E w \in Windows : WriteValue(w)
    \/ \E w \in Windows, f \in AccessFields : ReadField(w, f)

AccessSpec == AccessInit /\ [][AccessNext]_vars

C11_BlockPtr ==
    Returned("register_block_ptr") =>
        /\ ret.tag = "Panic" <=> (call.addr = 0 \/ call.addr % size_of(call.ty) # 0)
        /\ ret.tag # "Panic" => ret = Ok(call.addr)
        /\ ret.tag = "Ok" => (ret.val # 0 /\ ret.val % size_of(call.ty) = 0)

C11_Witness ==
    /\ Returned("register_block_ptr")
    /\ call.ty = "u64"
    /\ call.addr = 16
    /\ ret = Ok(16)

(* C15: for a field with the unshifted mask (1 << width) - 1 and a shift   *)
(* with shift + width within the storage width, a value v that fits the    *)
(* field is read back after make_value(v).const_modify(x), and the bits of *)
(* x outside the field are unchanged.                                      *)
C15_WriteReadRoundTrip ==
    Returned("make_value") =>
        \A w \in Widths :
            (/\ call.mask = Pow2(w) - 1
             /\ call.shift + w <= IntBits
             /\ BitAnd(call.value, BitNot(call.mask)) = 0) =>
                LET written == const_modify(ret.val, call.new)
                IN  /\ read(CallField, written) = call.value
                    /\ \A i \in BitIndexes :
                        (i < call.shift \/ i >= call.shift + w) =>
                            Bit(written, i) = Bit(call.new, i)

(***************************************************************************)
(* Combining field values of one register: a value is made from a field,   *)
(* combined with another by | or |=, and copied (FieldValue is Copy) to be *)
(* kept beside the one being built.                                        *)
(***************************************************************************)
CombineFields ==
    {Field_new(Pow2(w) - 1, s, "ReadWrite", "ReadWrite") :
        w \in 1..2, s \in Shifts} \ {Field_new(3, IntBits - 1, "ReadWrite", "ReadWrite")}

CombineValues == {0, IntMax}

CombineMake(f, v) ==
    /\ Writable(f.perm)
    /\ held' = Some(make_value(f, v))
    /\ UNCHANGED <<handles, call, ret, mem, reads, writes>>

CombineBitOr(f, v) ==
    /\ Writable(f.perm)
    /\ held.tag = "Some"
    /\ held' = Some(bitor(held.val, make_value(f, v)))
    /\ UNCHANGED <<handles, call, ret, mem, reads, writes>>

CombineBitOrAssign(f, v) ==
    /\ Writable(f.perm)
    /\ held.tag = "Some"
    /\ held' = Some(bitor_assign(held.val, make_value(f, v)))
    /\ UNCHANGED <<handles, call, ret, mem, reads, writes>>

CombineKeep ==
    /\ held.tag = "Some"
    /\ ret' = Ok(held.val)
    /\ UNCHANGED <<handles, call, held, mem, reads, writes>>

CombineNext ==
    \/ \E f \in CombineFields, v \in CombineValues : CombineMake(f, v)
    \/ \E f \in CombineFields, v \in CombineValues : CombineBitOr(f, v)
    \/ \E f \in CombineFields, v \in CombineValues : CombineBitOrAssign(f, v)
    \/ CombineKeep

CombineSpec == AccessInit /\ [][CombineNext]_vars

ValueInsideMask(fv) == BitAnd(fv.value, BitNot(fv.mask)) = 0

(* C16: every field value made by make_value, | and |= keeps its value     *)
(* inside its mask; for two such values with disjoint masks the combined   *)
(* write is the two writes one after the other, in either order, and |=    *)
(* gives the value | gives.                                                *)
C16_CombinedWrites ==
    /\ held.tag = "Some" => ValueInsideMask(held.val)
    /\ ret.tag = "Ok" => ValueInsideMask(ret.val)
    /\ (held.tag = "Some" /\ ret.tag = "Ok") =>
        /\ bitor_assign(held.val, ret.val) = bitor(held.val, ret.val)
        /\ BitAnd(held.val.mask, ret.val.mask) = 0 =>
            \A x \in Int_ :
                /\ const_modify(bitor(held.val, ret.val), x)
                    = const_modify(held.val, const_modify(ret.val, x))
                /\ const_modify(bitor(held.val, ret.val), x)
                    = const_modify(ret.val, const_modify(held.val, x))

C16_Witness ==
    /\ held.tag = "Some"
    /\ held.val.mask = 3
    /\ held.val.value = 1
    /\ ret.tag = "Ok"
    /\ ret.val.mask = 12
    /\ ret.val.value = 8

(* The discriminants as the parser is to yield them: (name, expression).   *)
RECURSIVE DiscriminantsParsed(_)
DiscriminantsParsed(discs) ==
    IF discs = <<>> THEN <<>>
    ELSE <<<<Head(discs)[1], ExprLitInt(Head(discs)[2])>>>>
         \o DiscriminantsParsed(Tail(discs))

LayoutExample(addr) ==
    LayoutTokens(addr, <<TPunct("="), TPunct(">")>>, <<>>, "status", <<TIdent("as")>>, "u32",
                 <<TBrace(<<TIdent("rw"), TIdent("flag"), TPunct(":"), Dec(0)>>)>>)

Sixteen ==
    {<<TLitInt(16, <<1, 0>>)>>, <<TLitInt(10, <<1, 6>>)>>, <<TLitInt(2, <<1, 0, 0, 0, 0>>)>>,
     <<TLitInt(8, <<2, 0>>)>>}

(* C13: 0x10 => status as u32 { rw flag: 0 } parses to one layout at       *)
(* address 16 (in whatever radix 16 is written), register status of type   *)
(* u32, with the one field flag: ReadWrite, start bit 0, width 1.          *)
C13_LayoutExample ==
    (Returned("RegisterLayout::parse") /\ \E a \in Sixteen : call.input = LayoutExample(a)) =>
        /\ ret.tag = "Ok"
        /\ ret.rest = <<>>
        /\ address(ret.val) = Ok(16)
        /\ ret.val.reg.ident = "status"
        /\ ret.val.reg.ty = "u32"
        /\ Len(ret.val.reg.fields) = 1
        /\ ret.val.reg.fields[1].ident = "flag"
        /\ ret.val.reg.fields[1].permission = "ReadWrite"
        /\ ret.val.reg.fields[1].options = None
        /\ start(ret.val.reg.fields[1].range) = Ok(0)
        /\ \A oc \in BOOLEAN : end(ret.val.reg.fields[1].range, oc) = Ok(Some(1))

C13_Witness ==
    /\ Returned("RegisterLayout::parse")
    /\ call.input = LayoutExample(<<TLitInt(16, <<1, 0>>)>>)
    /\ ret.tag = "Ok"
    /\ ret.val.addr = LitInt(16)
    /\ Len(ret.val.reg.fields) = 1

(***************************************************************************)
(* What safe code can do with a value it holds: duplicate it (Clone /      *)
(* Copy), move it to another execution context (Send), borrow it where it  *)
(* is, lend the borrow to another context (& needs Sync, &mut needs Send), *)
(* end a borrow, drop the value.                                           *)
(***************************************************************************)
Owned(o) == handles[o]["main"].owned + handles[o]["interrupt"].owned

Borrowed(o) == \E c \in Contexts : handles[o][c].borrowed

Duplicate(o, c) ==
    /\ Implements(o, "Clone") \/ Implements(o, "Copy")
    /\ handles[o][c].owned > 0
    /\ Owned(o) < MaxHandles
    /\ handles' = [handles EXCEPT ![o][c].owned = @ + 1]
    /\ UNCHANGED <<call, ret, mem, held, reads, writes>>

Move(o, c, d) ==
    /\ c # d
    /\ Implements(o, "Send")
    /\ handles[o][c].owned > 0
    /\ ~Borrowed(o)
    /\ handles' = [handles EXCEPT ![o][c].owned = @ - 1, ![o][d].owned = @ + 1]
    /\ UNCHANGED <<call, ret, mem, held, reads, writes>>

Borrow(o, c) ==
    /\ handles[o][c].owned > 0
    /\ ~handles[o][c].borrowed
    /\ handles' = [handles EXCEPT ![o][c].borrowed = TRUE]
    /\ UNCHANGED <<call, ret, mem, held, reads, writes>>

Lend(o, c, d) ==
    /\ c # d
    /\ Implements(o, "Sync") \/ Implements(o, "Send")
    /\ handles[o][c].owned > 0
    /\ ~handles[o][d].borrowed
    /\ handles' = [handles EXCEPT ![o][d].borrowed = TRUE]
    /\ UNCHANGED <<call, ret, mem, held, reads, writes>>

Release(o, c) ==
    /\ handles[o][c].borrowed
    /\ handles' = [handles EXCEPT ![o][c].borrowed = FALSE]
    /\ UNCHANGED <<call, ret, mem, held, reads, writes>>

Drop(o, c) ==
    /\ handles[o][c].owned > 0
    /\ ~Borrowed(o)
    /\ handles' = [handles EXCEPT ![o][c].owned = @ - 1]
    /\ UNCHANGED <<call, ret, mem, held, reads, writes>>

OwnerNext ==
    \/ \E o \in HandleTypes, c \in Contexts : Duplicate(o, c)
    \/ \E o \in HandleTypes, c, d \in Contexts : Move(o, c, d)
    \/ \E o \in HandleTypes, c \in Contexts : Borrow(o, c)
    \/ \E o \in HandleTypes, c, d \in Contexts : Lend(o, c, d)
    \/ \E o \in HandleTypes, c \in Contexts : Release(o, c)
    \/ \E o \in HandleTypes, c \in Contexts : Drop(o, c)

OwnerSpec == AccessInit /\ [][OwnerNext]_vars

(* C14: a RegisterWindow of any storage width implements none of Clone,    *)
(* Copy, Send, Sync; there is never more than one handle to the window,    *)
(* and no execution context other than the one it was created in ever      *)
(* holds it or a borrow of it.                                             *)
C14_WindowExclusive ==
    \A w \in WindowTypes :
        /\ \A t \in Traits : ~Implements(w, t)
        /\ Owned(w) <= 1
        /\ handles[w]["interrupt"].owned = 0
        /\ ~handles[w]["interrupt"].borrowed

C14_Witness ==
    /\ \A w \in WindowTypes : handles[w]["main"].owned = 1 /\ handles[w]["main"].borrowed
    /\ \E o \in HandleTypes \ WindowTypes :
        /\ handles[o]["main"].owned = 1
        /\ handles[o]["interrupt"].owned = 1
        /\ handles[o]["interrupt"].borrowed

====
